---- MODULE Spec2Model ----
(***************************************************************************)
(* Model of the generation-job tracker of the ModelGenerator component      *)
(* (src/components/model-generator.tsx) and of the status route it polls    *)
(* (src/app/api/task-status/route.ts, handleTaskStatus, third definition).  *)
(*                                                                         *)
(* retryCount is kept in HALF units: the code adds 0.5 to it on the         *)
(* immediate GET -> POST switch (line 821), so retryCount = 2 * (the        *)
(* JavaScript number).  maxRetries is kept in whole units.                  *)
(***************************************************************************)
EXTENDS Integers, Sequences, FiniteSets, TLC

\* ------------------------------------------------------------------ bounds
MaxJobs == 2            \* submissions per behaviour
MaxRetryCount == 9      \* largest retryCount (whole units) a scheduled poll carries
FailsCap == 4           \* the count of consecutive thrown polls saturates here
FreeLimit == 2          \* limits.free in the configuration a parent sends

\* ------------------------------------------------------- program constants
DefaultMaxRetries == 3  \* pollTaskStatus(taskId, retryCount = 0, maxRetries = 3)
SimulatedCeiling == 98  \* Math.min(98, ...)
SimulatedStep == 3      \* data.progress + 3 + jitter
JitterRange == 5        \* Math.floor(Math.random() * 5)
FakeBase == 25          \* 25 + retryCount * 10
FakeSlope == 10
MaxRetriesBump == 5     \* maxRetries + 5
DoneProgress == 100     \* setProgress(100)
NoKeyProgress == 35     \* route: API key missing
AuthProgress == 45      \* route: upstream 401 / 403
UpstreamErrProgress == 50   \* route: any other upstream non-2xx
BadJsonProgress == 30   \* route: upstream body does not parse
NoDataProgress == 60    \* route: upstream body has no data field
CatchProgress == 40     \* route: catch block

NoProgress == 0 - 1     \* a body without a (numeric) progress field
NonNumeric == 0 - 2     \* a progress field holding a truthy value that is no
                        \* number (a string such as "50%")
NoTask == 0             \* taskId = null

VARIABLES
  status,        \* "idle" | "uploading" | "generating" | "completed" | "error"
  progress,      \* useState(0)
  modelUrl,      \* "null" or a URL
  taskId,        \* NoTask or the id of the submitted job
  isGenerating,  \* useState(false)
  phase,         \* the await the running submit handler is at: "idle" (none),
                 \* "analyzing", "uploading", "starting" (/api/generate-model)
  inputType,     \* the handler of the latest submission: "text" | "image" |
                 \* "image-text"; "none" once the submission's first poll has
                 \* been answered (polling does not depend on the handler)
  genCalls,      \* history: /api/generate-model requests of the latest submission
  stlBlob,       \* TRUE when an STL blob is held
  converting,    \* convertToStl calls awaiting convertGlbToStl
  scheduled,     \* pending setTimeout(() => pollTaskStatus(...)) timers
  inflight,      \* pollTaskStatus invocations awaiting their fetch
  submissions,   \* number of submissions so far
  lastResp,      \* history: the response the poll that just finished received
  lastUp,        \* history: the upstream outcome behind it ("direct" if none)
  lastStep,      \* history: the branch the last handler step took
  fails,         \* history: consecutive polls of this job that threw on a network error
  userConfig,    \* useState({}): the configuration last received from the parent
  description,   \* handleImageTextSubmit's local `description` ("" outside it)
  handoff,       \* history: what became of the 'model-generated' message of the
                 \* latest success ("none": not posted)
  found          \* history: whether the poll step that completed the job
                 \* found a progress above 0 (earlier polls had reported some)

\* The FISHCAD import tracker (src/lib/taiyaki-integration.ts), one import
VARIABLES
  windowIo,      \* window.io is defined
  impStatus,     \* activeImports.get(requestId).status ("absent": no entry)
  impSocket,     \* activeImports.get(requestId).socket (0: none), an index of impSockets
  impSockets,    \* the sockets opened so far: "connecting" | "connected" | "closed"
  impTimers,     \* pending setTimeout(() => pollImportStatus(...)) timers
  impChecks,     \* pending setTimeout(checkStatus) timers
  impRequests,   \* status requests awaiting their answer
  impStep        \* history: the last step of the import tracker

jobVars == <<status, progress, modelUrl, taskId, isGenerating, phase, inputType,
             genCalls, stlBlob, converting, scheduled, inflight, submissions,
             lastResp, lastUp, lastStep, fails, userConfig, description,
             handoff, found>>

importVars == <<windowIo, impStatus, impSocket, impSockets, impTimers, impChecks,
                impRequests, impStep>>

vars == <<jobVars, importVars>>

\* ------------------------------------------------------------- small helpers
Min(a, b) == IF a < b THEN a ELSE b

RemoveAt(s, i) == [k \in 1..(Len(s) - 1) |-> IF k < i THEN s[k] ELSE s[k + 1]]

\* JavaScript truthiness of data.progress, and `data.progress || 0`
Truthy(p) == p # NoProgress /\ p # 0
OrZero(p) == IF Truthy(p) THEN p ELSE 0
IsNumber(p) == p # NoProgress /\ p # NonNumeric

Poll(t, rc, mx) == [taskId |-> t, retryCount |-> rc, maxRetries |-> mx]

\* retryCount (half units) against maxRetries (whole units)
AtLeastMax(p) == p.retryCount >= 2 * p.maxRetries
BelowMax(p) == p.retryCount < 2 * p.maxRetries
Method(p) == IF p.retryCount > 0 THEN "POST" ELSE "GET"

\* ------------------------------------------------------------- responses
\* What the client's fetch of /api/task-status resolves to.
Resp(k, c, e, s, p, m, b) ==
  [kind |-> k, code |-> c, err |-> e, status |-> s, progress |-> p,
   modelUrl |-> m, baseModelUrl |-> b]

NetworkError == Resp("network", 0, FALSE, "none", NoProgress, "null", "null")
NoResp == Resp("noresp", 0, FALSE, "none", NoProgress, "null", "null")
Body(e, s, p, m, b) == Resp("json", 200, e, s, p, m, b)

IsOk(r) == r.code >= 200 /\ r.code <= 299

\* ------------------------------------------------- the status route (server)
\* What the upstream generation service does to the route's own request.
Up(k, c, s, p, o, m, b) ==
  [kind |-> k, code |-> c, status |-> s, progress |-> p, hasOutput |-> o,
   model |-> m, base_model |-> b]

UpPlain(k, c) == Up(k, c, "none", NoProgress, FALSE, "null", "null")
UpData(s, p) == Up("data", 200, s, p, FALSE, "null", "null")

UpProgress == {NoProgress, 0, 20, 96, 100}

Upstream ==
  {UpPlain("nokey", 0), UpPlain("network", 0), UpPlain("http", 401),
   UpPlain("http", 403), UpPlain("http", 500), UpPlain("badjson", 200),
   UpPlain("nodata", 200)}
  \cup {UpData(s, p) : s \in {"running", "queued"}, p \in UpProgress}
  \cup {UpData("none", 20)}
  \cup {UpData(s, 0) : s \in {"failed", "cancelled", "unknown"}}
  \cup {Up("data", 200, "success", 100, o, m, b) :
          o \in BOOLEAN, m \in {"null", "glb"}, b \in {"null", "base"}}

Up401 == UpPlain("http", 401)
NoUp == UpPlain("none", 0)       \* history: no poll has finished yet
DirectUp == UpPlain("direct", 0) \* history: the answer was not the route's

\* Mutant: an upstream non-2xx status is passed on as the route's own status
\* (as the first definition of the route in the file does)
handleTaskStatusPassesCode(u) ==
  IF u.kind = "http"
    THEN Resp("json", u.code, TRUE, "running",
              IF u.code = 401 \/ u.code = 403 THEN AuthProgress
              ELSE UpstreamErrProgress, "null", "null")
  ELSE IF u.kind = "nokey"
    THEN Body(TRUE, "running", NoKeyProgress, "null", "null")
  ELSE IF u.kind = "network"
    THEN Body(TRUE, "running", CatchProgress, "null", "null")
  ELSE IF u.kind = "nodata"
    THEN Body(TRUE, "running", NoDataProgress, "null", "null")
  ELSE LET taskData == IF u.kind = "badjson"
                         THEN UpData("running", BadJsonProgress)
                         ELSE u
           urls == taskData.status = "success" /\ taskData.hasOutput
           baseModelUrl == IF urls THEN taskData.base_model ELSE "null"
           model == IF urls THEN taskData.model ELSE "null"
           finalModelUrl == IF model = "null" /\ baseModelUrl # "null"
                              THEN baseModelUrl ELSE model
       IN Body(FALSE, taskData.status, OrZero(taskData.progress),
               finalModelUrl, baseModelUrl)

\* Mutant: the catch block answers {error, details} without status and
\* progress (as the second definition of the route in the file does)
handleTaskStatusBareError(u) ==
  IF u.kind = "nokey"
    THEN Body(TRUE, "running", NoKeyProgress, "null", "null")
  ELSE IF u.kind = "network"
    THEN Body(TRUE, "none", NoProgress, "null", "null")
  ELSE IF u.kind = "http"
    THEN IF u.code = 401 \/ u.code = 403
           THEN Body(TRUE, "running", AuthProgress, "null", "null")
           ELSE Body(TRUE, "running", UpstreamErrProgress, "null", "null")
  ELSE IF u.kind = "nodata"
    THEN Body(TRUE, "running", NoDataProgress, "null", "null")
  ELSE LET taskData == IF u.kind = "badjson"
                         THEN UpData("running", BadJsonProgress)
                         ELSE u
           urls == taskData.status = "success" /\ taskData.hasOutput
           baseModelUrl == IF urls THEN taskData.base_model ELSE "null"
           model == IF urls THEN taskData.model ELSE "null"
           finalModelUrl == IF model = "null" /\ baseModelUrl # "null"
                              THEN baseModelUrl ELSE model
       IN Body(FALSE, taskData.status, OrZero(taskData.progress),
               finalModelUrl, baseModelUrl)

\* handleTaskStatus with the upstream call's outcome as its input: always
\* answers HTTP 200 (a request without taskId, answered 400, is not modelled:
\* the client always sends one)
handleTaskStatus(u) ==
  IF u.kind = "nokey"
    THEN Body(TRUE, "running", NoKeyProgress, "null", "null")
  ELSE IF u.kind = "network"
    THEN Body(TRUE, "running", CatchProgress, "null", "null")
  ELSE IF u.kind = "http"
    THEN IF u.code = 401 \/ u.code = 403
           THEN Body(TRUE, "running", AuthProgress, "null", "null")
           ELSE Body(TRUE, "running", UpstreamErrProgress, "null", "null")
  ELSE IF u.kind = "nodata"
    THEN Body(TRUE, "running", NoDataProgress, "null", "null")
  ELSE LET taskData == IF u.kind = "badjson"
                         THEN UpData("running", BadJsonProgress)
                         ELSE u
           urls == taskData.status = "success" /\ taskData.hasOutput
           baseModelUrl == IF urls THEN taskData.base_model ELSE "null"
           model == IF urls THEN taskData.model ELSE "null"
           finalModelUrl == IF model = "null" /\ baseModelUrl # "null"
                              THEN baseModelUrl ELSE model
       IN Body(FALSE, taskData.status, OrZero(taskData.progress),
               finalModelUrl, baseModelUrl)

\* Answers that do not come from handleTaskStatus above: the network, the
\* hosting platform, a proxy, or the earlier definitions of the route in the
\* same file (which answer {error} without a status).
Http401Running45 == Resp("json", 401, FALSE, "running", 45, "null", "null")

DirectResponses ==
  {NetworkError,
   Resp("json", 405, FALSE, "none", NoProgress, "null", "null"),
   Resp("json", 500, TRUE, "none", NoProgress, "null", "null"),
   Http401Running45,
   Resp("badjson", 200, FALSE, "none", NoProgress, "null", "null"),
   Body(TRUE, "none", NoProgress, "null", "null"),
   Body(TRUE, "queued", 20, "null", "null"),
   Body(TRUE, "running", 100, "null", "null"),
   Body(TRUE, "failed", 0, "null", "null"),
   Body(TRUE, "cancelled", NoProgress, "null", "null"),
   Body(TRUE, "unknown", NoProgress, "null", "null"),
   Body(TRUE, "success", 100, "glb", "null"),
   Body(FALSE, "success", 100, "null", "base")}

\* ------------------------------------------------ pollTaskStatus (client)
\* The React state a poll step reads and writes.
Cur == [status |-> status, progress |-> progress, modelUrl |-> modelUrl,
        isGenerating |-> isGenerating]

\* The effect of one pollTaskStatus invocation: the state it leaves, the
\* polls it schedules with setTimeout, and the branch it took.
Eff(st, pr, mu, ig, sch, step) ==
  [status |-> st, progress |-> pr, modelUrl |-> mu, isGenerating |-> ig,
   sched |-> sch, step |-> step, convert |-> FALSE]

Keep(s, sch, step) == Eff(s.status, s.progress, s.modelUrl, s.isGenerating, sch, step)

Next1(p) == Poll(p.taskId, p.retryCount + 2, p.maxRetries)

\* Mutant: the retry after a thrown error passes retryCount on unchanged
CatchBlockNoIncrement(s, p) ==
  IF AtLeastMax(p)
    THEN Eff("generating",
             Min(FakeBase + (p.retryCount * FakeSlope) \div 2, SimulatedCeiling),
             s.modelUrl, s.isGenerating,
             <<Poll(p.taskId, p.retryCount + 2, p.maxRetries + MaxRetriesBump)>>,
             "catch-fake")
    ELSE Keep(s, <<p>>, "catch-retry")

\* Mutant: the placeholder-progress branch passes maxRetries on unchanged
CatchBlockKeepsMaxRetries(s, p) ==
  IF AtLeastMax(p)
    THEN Eff("generating",
             Min(FakeBase + (p.retryCount * FakeSlope) \div 2, SimulatedCeiling),
             s.modelUrl, s.isGenerating, <<Next1(p)>>, "catch-fake")
  ELSE IF BelowMax(p)
    THEN Keep(s, <<Next1(p)>>, "catch-retry")
  ELSE Eff("error", s.progress, s.modelUrl, FALSE, <<>>, "catch-error")

\* Mutant: the catch block without its placeholder-progress branch: the
\* poll gives up once retryCount has reached maxRetries
CatchBlockGivesUp(s, p) ==
  IF BelowMax(p)
    THEN Keep(s, <<Next1(p)>>, "catch-retry")
    ELSE Eff("error", s.progress, s.modelUrl, FALSE, <<>>, "catch-error")

\* catch (error) { ... }
CatchBlock(s, p) ==
  IF AtLeastMax(p)
    THEN Eff("generating",
             Min(FakeBase + (p.retryCount * FakeSlope) \div 2, SimulatedCeiling),
             s.modelUrl, s.isGenerating,
             <<Poll(p.taskId, p.retryCount + 2, p.maxRetries + MaxRetriesBump)>>,
             "catch-fake")
  ELSE IF BelowMax(p)
    THEN Keep(s, <<Next1(p)>>, "catch-retry")
  ELSE Eff("error", s.progress, s.modelUrl, FALSE, <<>>, "catch-error")

\* Mutant: the success branch prefers data.baseModelUrl
SuccessBranchPrefersBase(s, p, r) ==
  LET finalModelUrl == IF r.baseModelUrl # "null" THEN r.baseModelUrl
                       ELSE IF r.modelUrl # "null" THEN r.modelUrl
                       ELSE "null"
  IN [Eff("completed", DoneProgress, finalModelUrl, FALSE, <<>>, "success")
        EXCEPT !.convert = (finalModelUrl # "null")]

\* Mutant: the success branch takes data.modelUrl only
SuccessBranchIgnoresBase(s, p, r) ==
  [Eff("completed", DoneProgress, r.modelUrl, FALSE, <<>>, "success")
     EXCEPT !.convert = (r.modelUrl # "null")]

\* Mutant: the success branch starts the STL conversion without looking at
\* finalModelUrl
SuccessBranchAlwaysConverts(s, p, r) ==
  LET finalModelUrl == IF r.modelUrl # "null" THEN r.modelUrl
                       ELSE IF r.baseModelUrl # "null" THEN r.baseModelUrl
                       ELSE "null"
  IN [Eff("completed", DoneProgress, finalModelUrl, FALSE, <<>>, "success")
        EXCEPT !.convert = TRUE]

\* if (data.status === "success") { ... }
SuccessBranch(s, p, r) ==
  LET finalModelUrl == IF r.modelUrl # "null" THEN r.modelUrl
                       ELSE IF r.baseModelUrl # "null" THEN r.baseModelUrl
                       ELSE "null"
  IN [Eff("completed", DoneProgress, finalModelUrl, FALSE, <<>>, "success")
        EXCEPT !.convert = (finalModelUrl # "null")]

\* Mutant: the failure branch reports the error and goes on polling
FailedBranchRetries(s, p, r) ==
  Eff("error", s.progress, s.modelUrl, FALSE, <<Next1(p)>>, "failed")

\* else if (data.status === "failed" || "cancelled" || "unknown") { ... }
FailedBranch(s, p, r) ==
  Eff("error", s.progress, s.modelUrl, FALSE, <<>>, "failed")

\* Mutant: simulated progress without Math.min(98, ...)
InProgressBranchNoClamp(s, p, r, j) ==
  IF AtLeastMax(p) /\ Truthy(r.progress)
    THEN Eff(s.status, r.progress + SimulatedStep + j,
             s.modelUrl, s.isGenerating,
             <<Poll(p.taskId, 0, p.maxRetries)>>, "simulated")
    ELSE Eff(s.status, OrZero(r.progress), s.modelUrl, s.isGenerating,
             <<Next1(p)>>, "in-progress")

\* Mutant: the simulated-progress path reschedules like regular polling
InProgressBranchNoReset(s, p, r, j) ==
  IF AtLeastMax(p) /\ Truthy(r.progress)
    THEN Eff(s.status, Min(SimulatedCeiling, r.progress + SimulatedStep + j),
             s.modelUrl, s.isGenerating, <<Next1(p)>>, "simulated")
    ELSE Eff(s.status, OrZero(r.progress), s.modelUrl, s.isGenerating,
             <<Next1(p)>>, "in-progress")

\* Mutant: the simulated-progress path returns without its setTimeout
InProgressBranchStops(s, p, r, j) ==
  IF AtLeastMax(p) /\ Truthy(r.progress)
    THEN Eff(s.status, Min(SimulatedCeiling, r.progress + SimulatedStep + j),
             s.modelUrl, s.isGenerating, <<>>, "simulated")
    ELSE Eff(s.status, OrZero(r.progress), s.modelUrl, s.isGenerating,
             <<Next1(p)>>, "in-progress")

\* else { ... }: still in progress
InProgressBranch(s, p, r, j) ==
  IF AtLeastMax(p) /\ Truthy(r.progress)
    THEN Eff(s.status, Min(SimulatedCeiling, r.progress + SimulatedStep + j),
             s.modelUrl, s.isGenerating,
             <<Poll(p.taskId, 0, p.maxRetries)>>, "simulated")
    ELSE Eff(s.status, OrZero(r.progress), s.modelUrl, s.isGenerating,
             <<Next1(p)>>, "in-progress")

StatusDispatch(s, p, r, j) ==
  IF r.status = "success" THEN SuccessBranch(s, p, r)
  ELSE IF r.status \in {"failed", "cancelled", "unknown"} THEN FailedBranch(s, p, r)
  ELSE InProgressBranch(s, p, r, j)

\* Mutant: the soft-error path reschedules without setProgress(data.progress)
SoftErrorBranchKeepsProgress(s, p, r, j) ==
  IF r.status = "running" /\ IsNumber(r.progress)
    THEN Keep(s, <<Next1(p)>>, "soft-error")
  ELSE IF r.status = "none"
    THEN CatchBlock(s, p)
  ELSE StatusDispatch(s, p, r, j)

\* Mutant: every error body without a usable running/progress pair throws,
\* whether or not it carries a status
SoftErrorBranchAlwaysThrows(s, p, r, j) ==
  IF r.status = "running" /\ IsNumber(r.progress)
    THEN Eff(s.status, r.progress, s.modelUrl, s.isGenerating,
             <<Next1(p)>>, "soft-error")
    ELSE CatchBlock(s, p)

\* if (data.error || data.message) { ... }
SoftErrorBranch(s, p, r, j) ==
  IF r.status = "running" /\ IsNumber(r.progress)
    THEN Eff(s.status, r.progress, s.modelUrl, s.isGenerating,
             <<Next1(p)>>, "soft-error")
  ELSE IF r.status = "none"
    THEN CatchBlock(s, p)
  ELSE StatusDispatch(s, p, r, j)

\* Mutant: the GET -> POST switch lacks its return and falls through to
\* the throw
NotOkBranchFallsThrough(s, p, r) ==
  IF r.code = 405 /\ Method(p) = "GET"
    THEN LET c == CatchBlock(s, p)
         IN Eff(c.status, c.progress, c.modelUrl, c.isGenerating,
                <<Poll(p.taskId, p.retryCount + 1, p.maxRetries)>> \o c.sched,
                "switch-post")
  ELSE IF r.code = 405 /\ BelowMax(p)
    THEN Keep(s, <<Next1(p)>>, "retry-405")
  ELSE CatchBlock(s, p)

\* if (!response.ok) { ... }
NotOkBranch(s, p, r) ==
  IF r.code = 405 /\ Method(p) = "GET"
    THEN Keep(s, <<Poll(p.taskId, p.retryCount + 1, p.maxRetries)>>, "switch-post")
  ELSE IF r.code = 405 /\ BelowMax(p)
    THEN Keep(s, <<Next1(p)>>, "retry-405")
  ELSE CatchBlock(s, p)

\* The whole of pollTaskStatus after its fetch has resolved to r; j is the
\* value of Math.floor(Math.random() * 5).
pollTaskStatus(s, p, r, j) ==
  IF r.kind = "network" THEN CatchBlock(s, p)
  ELSE IF ~IsOk(r) THEN NotOkBranch(s, p, r)
  ELSE IF r.kind = "badjson" THEN CatchBlock(s, p)
  ELSE IF r.err THEN SoftErrorBranch(s, p, r, j)
  ELSE StatusDispatch(s, p, r, j)

\* ------------------------------------------------------- checkUserLimits
\* A configuration as checkUserLimits reads it: limits is whether
\* userConfig.limits is set, free is limits.free (0: absent), usageCount 0
\* stands for an absent or zero count
Config(l, f, t, u) == [limits |-> l, free |-> f, userTier |-> t, usageCount |-> u]

NoConfig == Config(FALSE, 0, "none", 0)          \* useState({})
FreeAtLimit == Config(TRUE, FreeLimit, "free", FreeLimit)

\* The configurations the parent window sends
Configs == {NoConfig, FreeAtLimit}

\* Mutant: the limit is on pro users
checkUserLimitsWrongTier(c) ==
  IF ~c.limits THEN TRUE
  ELSE ~(c.userTier = "pro" /\ c.free # 0 /\ c.usageCount # 0
           /\ c.usageCount >= c.free)

\* checkUserLimits: TRUE when the submission may go on
checkUserLimits(c) ==
  IF ~c.limits THEN TRUE
  ELSE ~(c.userTier = "free" /\ c.free # 0 /\ c.usageCount # 0
           /\ c.usageCount >= c.free)

\* ------------------------------------------------------------------ actions
JobInit ==
  /\ status = "idle"
  /\ progress = 0
  /\ modelUrl = "null"
  /\ taskId = NoTask
  /\ isGenerating = FALSE
  /\ phase = "idle"
  /\ inputType = "none"
  /\ genCalls = 0
  /\ stlBlob = FALSE
  /\ converting = 0
  /\ scheduled = <<>>
  /\ inflight = <<>>
  /\ submissions = 0
  /\ lastResp = NoResp
  /\ lastUp = NoUp
  /\ lastStep = "init"
  /\ fails = 0
  /\ userConfig = NoConfig
  /\ description = ""
  /\ handoff = "none"
  /\ found = FALSE

\* No import has been requested
ImportIdle ==
  /\ impStatus = "absent"
  /\ impSocket = 0
  /\ impSockets = <<>>
  /\ impTimers = 0
  /\ impChecks = 0
  /\ impRequests = 0
  /\ impStep = "init"

Init ==
  /\ JobInit
  /\ windowIo = FALSE
  /\ ImportIdle

InputTypes == {"text", "image", "image-text"}

\* Mutant: the Generate button is not disabled while a job is running
CanSubmitWhileGenerating == status # "completed" \/ modelUrl = "null"

\* The Generate button is rendered and enabled (lines 1529-1546); the prompt
\* and the file the handler needs are present.
CanSubmit ==
  /\ status # "completed" \/ modelUrl = "null"
  /\ ~isGenerating

\* The first await of each submit handler: handleTextSubmit goes straight to
\* fetch("/api/generate-model"), handleImageSubmit to fetch("/api/upload-image"),
\* handleImageTextSubmit to fetch("/api/analyze-image").
FirstAwait(kind) ==
  IF kind = "text" THEN "starting"
  ELSE IF kind = "image" THEN "uploading"
  ELSE "analyzing"

\* handleTextSubmit / handleImageSubmit / handleImageTextSubmit up to their
\* first await
Submit(kind) ==
  /\ CanSubmit
  /\ phase = "idle"
  /\ checkUserLimits(userConfig)
  /\ submissions < MaxJobs
  /\ inputType' = kind
  /\ status' = "generating"
  /\ progress' = 0
  /\ isGenerating' = TRUE
  /\ stlBlob' = FALSE
  /\ phase' = FirstAwait(kind)
  /\ genCalls' = IF kind = "text" THEN 1 ELSE 0
  /\ submissions' = submissions + 1
  /\ lastResp' = NoResp
  /\ lastUp' = NoUp
  /\ lastStep' = "submit"
  /\ fails' = 0
  /\ description' = ""
  /\ handoff' = "none"
  /\ found' = FALSE
  /\ UNCHANGED <<modelUrl, taskId, converting, scheduled, inflight, userConfig>>
  /\ UNCHANGED importVars

\* A submit handler stopped by `if (!checkUserLimits()) return`: a toast
\* and nothing else
SubmitBlocked(kind) ==
  /\ CanSubmit
  /\ phase = "idle"
  /\ ~checkUserLimits(userConfig)
  /\ lastStep' = "limit-blocked"
  /\ UNCHANGED <<status, progress, modelUrl, taskId, isGenerating, phase,
                 inputType, genCalls, stlBlob, converting, scheduled, inflight,
                 submissions, lastResp, lastUp, fails, userConfig, description,
                 handoff, found>>
  /\ UNCHANGED importVars

\* handleMessage: a message of type 'config' from the parent window
ConfigMessage(c) ==
  /\ userConfig' = c
  /\ UNCHANGED <<status, progress, modelUrl, taskId, isGenerating, phase,
                 inputType, genCalls, stlBlob, converting, scheduled, inflight,
                 submissions, lastResp, lastUp, lastStep, fails, description,
                 handoff, found>>
  /\ UNCHANGED importVars

\* Outcomes of the /api/analyze-image call: a 2xx body with a description,
\* one with an empty description, a non-2xx body without or with a
\* description, a body that does not parse, a network error
AnalysisOutcomes ==
  {"description", "empty", "non2xx", "non2xx-description", "badjson", "network"}

\* Mutant: only the description of the analysis is used, without the
\* fallbacks to the user's prompt and to the default text
DescriptionFromAnalysisOnly(a, prompt) ==
  IF a \in {"description", "non2xx-description"} THEN "analysis" ELSE ""

\* The description handleImageTextSubmit ends up with (lines 567-663):
\* the one of the analysis, else imageTextPrompt, else the default text
Description(a, prompt) ==
  LET fromAnalysis ==
        IF a \in {"description", "non2xx-description"} THEN "analysis"
        ELSE prompt            \* imageTextPrompt || `Create a 3D model ...`
  IN IF fromAnalysis = "" THEN "default" ELSE fromAnalysis

\* handleImageTextSubmit from the analysis answer to fetch("/api/upload-image"):
\* every outcome leaves a description and goes on to the upload
AnalyzeResolve(a) ==
  /\ phase = "analyzing"
  /\ phase' = "uploading"
  /\ lastStep' = "analyzed"
  /\ description' = Description(a, "prompt")
  /\ UNCHANGED <<status, progress, modelUrl, taskId, isGenerating, inputType,
                 genCalls, stlBlob, converting, scheduled, inflight,
                 submissions, lastResp, lastUp, fails, userConfig, handoff,
                 found>>
  /\ UNCHANGED importVars

\* handleImageSubmit / handleImageTextSubmit after the upload: on success the
\* generation request is sent, otherwise the handler's catch block runs
UploadResolve(ok) ==
  /\ phase = "uploading"
  /\ IF ok
       THEN /\ phase' = "starting"
            /\ status' = "generating"
            /\ genCalls' = genCalls + 1
            /\ lastStep' = "uploaded"
            /\ UNCHANGED isGenerating
       ELSE /\ phase' = "idle"
            /\ status' = "error"
            /\ isGenerating' = FALSE
            /\ lastStep' = "upload-failed"
            /\ UNCHANGED genCalls
  /\ UNCHANGED <<progress, modelUrl, taskId, inputType, stlBlob, converting,
                 scheduled, inflight, submissions, lastResp, lastUp, fails,
                 userConfig, description, handoff, found>>
  /\ UNCHANGED importVars

\* Outcomes of the /api/generate-model call: a 2xx body with a taskId, a 2xx
\* body without one, or a failure (network error, non-2xx, unparsable body)
StartOutcomes == {"taskId", "noTaskId", "failed"}

\* Mutant: a failed generation request is not thrown on
StartResultIgnoresFailure(kind, out) ==
  IF out = "noTaskId" /\ kind = "image-text" THEN "error" ELSE "poll"

\* What a submit handler does with the answer of /api/generate-model: only
\* handleImageTextSubmit checks that the body carries a taskId (line 720)
StartResult(kind, out) ==
  IF out = "failed" THEN "error"
  ELSE IF out = "noTaskId" /\ kind = "image-text" THEN "error"
  ELSE "poll"

\* The submit handler after its await of /api/generate-model: the first poll
\* is called directly with data.taskId, or the catch block runs
StartResolve(out) ==
  /\ phase = "starting"
  /\ phase' = "idle"
  /\ lastStep' = IF out = "taskId" THEN "started"
                 ELSE IF out = "noTaskId" THEN "start-noid" ELSE "start-failed"
  /\ IF StartResult(inputType, out) = "poll"
       THEN LET id == IF out = "taskId" THEN submissions ELSE NoTask
            IN /\ taskId' = id
               /\ inflight' = Append(inflight, Poll(id, 0, DefaultMaxRetries))
               /\ UNCHANGED <<status, isGenerating>>
       ELSE /\ status' = "error"
            /\ isGenerating' = FALSE
            /\ UNCHANGED <<taskId, inflight>>
  /\ description' = ""
  /\ UNCHANGED <<progress, modelUrl, inputType, genCalls, stlBlob, converting,
                 scheduled, submissions, lastResp, lastUp, fails, userConfig,
                 handoff, found>>
  /\ UNCHANGED importVars

\* a setTimeout timer fires: pollTaskStatus runs up to its await of fetch
\* (the history of the previous poll's answer ends here)
PollFire(i) ==
  /\ i \in 1..Len(scheduled)
  /\ inflight' = Append(inflight, scheduled[i])
  /\ scheduled' = RemoveAt(scheduled, i)
  /\ lastResp' = NoResp
  /\ lastUp' = NoUp
  /\ lastStep' = "poll-fired"
  /\ inputType' = "none"
  /\ UNCHANGED <<status, progress, modelUrl, taskId, isGenerating, phase,
                 genCalls, stlBlob, converting, submissions, fails, userConfig,
                 description, handoff, found>>
  /\ UNCHANGED importVars

\* the fetch of in-flight poll i resolves to r: the rest of pollTaskStatus.
\* The success branch posts 'model-generated' to the parent when the page
\* is embedded (window !== window.parent, line 930).
PollResolve(i, r, u, j) ==
  /\ i \in 1..Len(inflight)
  /\ LET p == inflight[i]
         e == pollTaskStatus(Cur, p, r, j)
     IN /\ \A k \in 1..Len(e.sched) : e.sched[k].retryCount <= 2 * MaxRetryCount
        /\ status' = e.status
        /\ progress' = e.progress
        /\ modelUrl' = e.modelUrl
        /\ isGenerating' = e.isGenerating
        /\ scheduled' = scheduled \o e.sched
        /\ inflight' = RemoveAt(inflight, i)
        /\ lastStep' = e.step
        /\ converting' = IF e.convert THEN converting + 1 ELSE converting
        /\ found' = IF e.step = "success" THEN progress > 0 ELSE found
        /\ handoff' \in IF e.step = "success" THEN {"none", "posted"}
                        ELSE {handoff}
  /\ lastResp' = r
  /\ lastUp' = u
  /\ fails' = IF r.kind = "network" THEN Min(fails + 1, FailsCap) ELSE 0
  /\ inputType' = "none"
  /\ UNCHANGED <<taskId, phase, genCalls, stlBlob, submissions, userConfig,
                 description>>
  /\ UNCHANGED importVars

\* Math.floor(Math.random() * 5), drawn only on the simulated-progress path
Jitter(p, r) ==
  IF AtLeastMax(p) /\ Truthy(r.progress) THEN 0..(JitterRange - 1) ELSE {0}

\* the poll's request reaches handleTaskStatus, whose upstream call ends in u
PollResolveRoute ==
  \E i \in 1..Len(inflight), u \in Upstream :
    \E j \in Jitter(inflight[i], handleTaskStatus(u)) :
      PollResolve(i, handleTaskStatus(u), u, j)

\* the poll's request is answered by something else, or not at all
PollResolveDirect ==
  \E i \in 1..Len(inflight), r \in DirectResponses :
    \E j \in Jitter(inflight[i], r) : PollResolve(i, r, DirectUp, j)

\* resetState: the "Create New Model" button (lines 1470, 1516-1524)
ResetState ==
  /\ status = "completed" /\ modelUrl # "null"
  /\ status' = "idle"
  /\ modelUrl' = "null"
  /\ taskId' = NoTask
  /\ progress' = 0
  /\ isGenerating' = FALSE
  /\ lastResp' = NoResp
  /\ lastUp' = NoUp
  /\ lastStep' = "reset"
  /\ fails' = 0
  /\ stlBlob' = FALSE
  /\ handoff' = "none"
  /\ found' = FALSE
  /\ UNCHANGED <<phase, inputType, genCalls, converting, scheduled, inflight,
                 submissions, userConfig, description>>
  /\ UNCHANGED importVars

\* Mutant: a failed conversion is reported as a failed job
ConvertResolveFailsJob(ok) ==
  /\ converting > 0
  /\ converting' = converting - 1
  /\ stlBlob' = IF ok THEN TRUE ELSE stlBlob
  /\ status' = IF ok THEN status ELSE "error"
  /\ UNCHANGED <<progress, modelUrl, taskId, isGenerating, phase,
                 inputType, genCalls, scheduled, inflight, submissions,
                 lastResp, lastUp, lastStep, fails, userConfig, description,
                 handoff, found>>
  /\ UNCHANGED importVars

\* convertToStl after its await of convertGlbToStl: the blob is stored, or
\* the conversion failed and only a toast is shown
ConvertResolve(ok) ==
  /\ converting > 0
  /\ converting' = converting - 1
  /\ stlBlob' = IF ok THEN TRUE ELSE stlBlob
  /\ UNCHANGED <<status, progress, modelUrl, taskId, isGenerating, phase,
                 inputType, genCalls, scheduled, inflight, submissions,
                 lastResp, lastUp, lastStep, fails, userConfig, description,
                 handoff, found>>
  /\ UNCHANGED importVars

\* What becomes of a posted 'model-generated' message: the parent takes it,
\* takes it and answers (handleMessage ignores every message that is not of
\* type 'config'), or nobody listens
HandOffOutcomes == {"delivered", "acknowledged", "lost"}

HandOffResolve(o) ==
  /\ handoff = "posted"
  /\ handoff' = o
  /\ UNCHANGED <<status, progress, modelUrl, taskId, isGenerating, phase,
                 inputType, genCalls, stlBlob, converting, scheduled, inflight,
                 submissions, lastResp, lastUp, lastStep, fails, userConfig,
                 description, found>>
  /\ UNCHANGED importVars

\* The page on its own or in a parent window that sends no configuration:
\* userConfig stays {} and no limit applies
Next ==
  \/ \E kind \in InputTypes : Submit(kind)
  \/ \E o \in HandOffOutcomes : HandOffResolve(o)
  \/ \E a \in AnalysisOutcomes : AnalyzeResolve(a)
  \/ \E ok \in BOOLEAN : UploadResolve(ok)
  \/ \E out \in StartOutcomes : StartResolve(out)
  \/ \E ok \in BOOLEAN : ConvertResolve(ok)
  \/ \E i \in 1..Len(scheduled) : PollFire(i)
  \/ PollResolveRoute
  \/ PollResolveDirect
  \/ ResetState

Spec == Init /\ [][Next]_vars

\* ---------------------------------------------- normalization on its own
\* The progress values and payloads an upstream answer may carry, numeric
\* or not
NormProgress == {NoProgress, NonNumeric, 0, 1, 50, 100, 150}

NormUpstream ==
  Upstream
  \cup {UpData(s, p) : s \in {"running", "queued", "none", "failed"},
                       p \in NormProgress}
  \cup {Up("data", 200, "success", p, o, "glb", "null") :
          p \in NormProgress, o \in BOOLEAN}

NormInit ==
  /\ status = "generating"
  /\ progress = 0
  /\ modelUrl = "null"
  /\ taskId = 1
  /\ isGenerating = TRUE
  /\ phase = "idle"
  /\ inputType = "none"
  /\ genCalls = 1
  /\ stlBlob = FALSE
  /\ converting = 0
  /\ scheduled = <<>>
  /\ inflight = <<>>
  /\ submissions = 1
  /\ lastResp = NoResp
  /\ lastUp \in NormUpstream
  /\ lastStep = "payload"
  /\ fails = 0
  /\ userConfig = NoConfig
  /\ description = ""
  /\ handoff = "none"
  /\ found = FALSE
  /\ windowIo = FALSE
  /\ ImportIdle

\* handleTaskStatus applied to the payload, and what the client's
\* setProgress(data.progress || 0) makes of the answer's progress
Normalize ==
  /\ lastStep = "payload"
  /\ lastResp' = handleTaskStatus(lastUp)
  /\ progress' = OrZero(lastResp'.progress)
  /\ lastStep' = "normalized"
  /\ UNCHANGED <<status, modelUrl, taskId, isGenerating, phase, inputType,
                 genCalls, stlBlob, converting, scheduled, inflight,
                 submissions, lastUp, fails, userConfig, description, handoff,
                 found>>
  /\ UNCHANGED importVars

NormNext == Normalize

SpecNormalize == NormInit /\ [][NormNext]_vars

\* The page in a parent window that sends configurations at any time
NextConfigured ==
  \/ Next
  \/ \E c \in Configs : ConfigMessage(c)
  \/ \E kind \in InputTypes : SubmitBlocked(kind)

SpecConfigured == Init /\ [][NextConfigured]_vars

\* ------------------------------------------------- the FISHCAD import tracker
\* src/lib/taiyaki-integration.ts: sendDirectServerRequest, pollImportStatus,
\* updateImportUI, for one import (one requestId).  The socket.io client is the
\* environment: it fires 'connect' when a socket is connected, 'import-status'
\* when the server pushes a status, and 'disconnect' when a connected socket
\* goes down, whether the network dropped it or the page called disconnect().

\* Sockets that one import may open
MaxSockets == 3
\* Pending setTimeout(() => pollImportStatus(...)) timers
MaxImportTimers == 2

\* setTimeout(checkStatus, 2000) after an answered status request
PollDelay == 2000
\* setTimeout(checkStatus, 5000) after a failed status request
RetryDelay == 5000

ImportStatuses == {"importing", "processing", "completed", "failed"}
Terminal == {"completed", "failed"}

\* updateImportUI's clean-up: importData.socket.disconnect() closes the stored
\* socket; a socket that was connected fires its 'disconnect' handler
Disconnected(socks, k) ==
  IF k = 0 THEN socks ELSE [socks EXCEPT ![k] = "closed"]

DisconnectFires(socks, k) == k # 0 /\ socks[k] = "connected"

\* updateImportUI(requestId, s, data) on an existing entry: the sockets and the
\* pollImportStatus timers it leaves
updateImportUI(s, socks) ==
  IF s \in Terminal
  THEN [status |-> s, sockets |-> Disconnected(socks, impSocket),
        timers |-> IF DisconnectFires(socks, impSocket)
                   THEN impTimers + 1 ELSE impTimers]
  ELSE [status |-> s, sockets |-> socks, timers |-> impTimers]

\* The first lines of checkStatus: a request is sent unless the entry's status
\* is completed or failed
checkStatusRequests(st) == IF st \in Terminal THEN 0 ELSE 1

\* pollImportStatus on an existing entry whose status is st: with window.io a
\* new socket is created and stored, otherwise checkStatus runs at once
pollImportStatus(st) ==
  IF windowIo
  THEN /\ impSockets' = Append(impSockets, "connecting")
       /\ impSocket' = Len(impSockets) + 1
       /\ impRequests' = impRequests
  ELSE /\ impSockets' = impSockets
       /\ impSocket' = impSocket
       /\ impRequests' = impRequests + checkStatusRequests(st)

\* sendDirectServerRequest: the import request succeeds (the entry gets status
\* 'importing' and pollImportStatus is called) or fails (the entry is deleted)
ImportStart(ok) ==
  /\ impStatus = "absent"
  /\ impStep = "init"
  /\ IF ok
     THEN /\ impStatus' = "importing"
          /\ pollImportStatus("importing")
          /\ impStep' = "start"
     ELSE /\ impStep' = "start-failed"
          /\ UNCHANGED <<impStatus, impSocket, impSockets, impRequests>>
  /\ UNCHANGED <<windowIo, impTimers, impChecks>>
  /\ UNCHANGED jobVars

\* The timer of a 'disconnect' handler fires: pollImportStatus runs again
PollTimerFire ==
  /\ impTimers > 0
  /\ impStatus # "absent"
  /\ windowIo => Len(impSockets) < MaxSockets
  /\ impTimers' = impTimers - 1
  /\ pollImportStatus(impStatus)
  /\ impStep' = "timer"
  /\ UNCHANGED <<windowIo, impStatus, impChecks>>
  /\ UNCHANGED jobVars

\* 'connect' on socket k: socket.emit('subscribe-import', importId)
SocketConnect(k) ==
  /\ k \in 1..Len(impSockets)
  /\ impSockets[k] = "connecting"
  /\ impSockets' = [impSockets EXCEPT ![k] = "connected"]
  /\ impStep' = "subscribe"
  /\ UNCHANGED <<windowIo, impStatus, impSocket, impTimers, impChecks,
                 impRequests>>
  /\ UNCHANGED jobVars

\* 'import-status' for this import on the subscribed socket k
SocketStatus(k, s) ==
  /\ k \in 1..Len(impSockets)
  /\ impSockets[k] = "connected"
  /\ impStatus # "absent"
  /\ LET u == updateImportUI(s, impSockets) IN
       /\ u.timers <= MaxImportTimers
       /\ impStatus' = u.status
       /\ impSockets' = u.sockets
       /\ impTimers' = u.timers
  /\ impStep' = "socket-status"
  /\ UNCHANGED <<windowIo, impSocket, impChecks, impRequests>>
  /\ UNCHANGED jobVars

\* The connection of socket k goes down: the 'disconnect' handler sets its
\* timer; the client reconnects by itself unless the server closed the socket
SocketDrop(k, reconnects) ==
  /\ k \in 1..Len(impSockets)
  /\ impSockets[k] = "connected"
  /\ impTimers < MaxImportTimers
  /\ impSockets' = [impSockets EXCEPT
                      ![k] = IF reconnects THEN "connecting" ELSE "closed"]
  /\ impTimers' = impTimers + 1
  /\ impStep' = "drop"
  /\ UNCHANGED <<windowIo, impStatus, impSocket, impChecks, impRequests>>
  /\ UNCHANGED jobVars

\* A setTimeout(checkStatus, ...) timer fires
CheckFire ==
  /\ impChecks # 0
  /\ impChecks' = 0
  /\ impRequests' = impRequests + checkStatusRequests(impStatus)
  /\ impStep' = "check"
  /\ UNCHANGED <<windowIo, impStatus, impSocket, impSockets, impTimers>>
  /\ UNCHANGED jobVars

\* The status request is answered with status s: updateImportUI, and the next
\* check in 2 s unless s is completed or failed
HttpResolveOk(s) ==
  /\ impRequests > 0
  /\ impRequests' = impRequests - 1
  /\ LET u == updateImportUI(s, impSockets) IN
       /\ impStatus' = u.status
       /\ impSockets' = u.sockets
       /\ impTimers' = u.timers
  /\ impChecks' = IF s \in Terminal THEN impChecks ELSE PollDelay
  /\ impStep' = "http-ok"
  /\ UNCHANGED <<windowIo, impSocket>>
  /\ UNCHANGED jobVars

\* The status request fails (fetch rejects, a non-2xx answer, or a body that
\* is not JSON): the next check in 5 s
HttpResolveFailed ==
  /\ impRequests > 0
  /\ impRequests' = impRequests - 1
  /\ impChecks' = RetryDelay
  /\ impStep' = "http-failed"
  /\ UNCHANGED <<windowIo, impStatus, impSocket, impSockets, impTimers>>
  /\ UNCHANGED jobVars

ImportInit ==
  /\ JobInit
  /\ windowIo \in BOOLEAN
  /\ ImportIdle

ImportNext ==
  \/ \E ok \in BOOLEAN : ImportStart(ok)
  \/ PollTimerFire
  \/ \E k \in 1..MaxSockets : SocketConnect(k)
  \/ \E k \in 1..MaxSockets, s \in ImportStatuses : SocketStatus(k, s)
  \/ \E k \in 1..MaxSockets, r \in BOOLEAN : SocketDrop(k, r)
  \/ CheckFire
  \/ \E s \in ImportStatuses : HttpResolveOk(s)
  \/ HttpResolveFailed

SpecImport == ImportInit /\ [][ImportNext]_vars

\* ------------------------------------------------------------------ claims
\* A step in which a pollTaskStatus invocation finishes (only such a step
\* takes a poll out of flight).
PollStep == Len(inflight') < Len(inflight)

Pending == Len(scheduled) + Len(inflight)

TerminalFailure(r) ==
  r.kind = "json" /\ IsOk(r) /\ r.status \in {"failed", "cancelled", "unknown"}

\* C1: the progress a poll step leaves is never lower than the progress it
\* found, whatever the poll's outcome.
C1_ProgressNeverDecreases == [][PollStep => progress' >= progress]_vars

\* C2: progress is 100 exactly when the status is 'completed'.
C2_HundredIffCompleted == (progress = DoneProgress) <=> (status = "completed")

\* C3: once the status is 'completed' or 'error' no poll is scheduled or in
\* flight, and no step other than a new submission or a reset changes
\* status, progress or modelUrl.
C3_TerminalIsFinal ==
  /\ [](status \in {"completed", "error"} => Pending = 0)
  /\ [][(status \in {"completed", "error"} /\ submissions' = submissions
          /\ lastStep' # "reset")
        => (status' = status /\ progress' = progress /\ modelUrl' = modelUrl)]_vars

C3_Witness == status = "completed" /\ lastStep = "success" /\ progress = DoneProgress

\* C4: a poll step sets the status to 'error' only when its response is a
\* parsed 2xx body whose status is failed, cancelled or unknown; a poll that
\* threw never does, however many polls threw before it.
C4_ErrorOnlyOnTerminalSignal ==
  [][(PollStep /\ status' = "error") => TerminalFailure(lastResp')]_vars

C4_Witness ==
  /\ fails = FailsCap
  /\ lastStep = "catch-fake"
  /\ status = "generating"
  /\ Pending = 1

\* C5: a poll step whose response has status failed, cancelled or unknown
\* sets the status to 'error', clears isGenerating and schedules nothing,
\* with or without an error or message field in the body.
C5_TerminalSignalFails ==
  [][(PollStep /\ TerminalFailure(lastResp'))
     => (status' = "error" /\ ~isGenerating' /\ scheduled' = scheduled)]_vars

C5_Witness ==
  /\ lastResp.err /\ TerminalFailure(lastResp)
  /\ status = "error" /\ ~isGenerating /\ Pending = 0

\* C6: after three consecutive polls threw on network errors under
\* maxRetries = 3, a fourth poll that throws too keeps the status
\* 'generating' and leaves a progress above the one it found and at most 98.
C6_FourthPollAdvances ==
  [][(PollStep /\ fails = 3 /\ lastResp'.kind = "network"
        /\ \A i \in 1..Len(inflight) : inflight[i].maxRetries = DefaultMaxRetries)
     => (status' = "generating" /\ progress' > progress
           /\ progress' <= SimulatedCeiling)]_vars

C8_AttemptResetOnSuccess ==
  [][(PollStep /\ lastResp'.kind = "json" /\ IsOk(lastResp') /\ ~lastResp'.err
        /\ lastResp'.status \in {"running", "queued"})
     => \A k \in 1..Len(scheduled') : scheduled'[k].retryCount = 0]_vars

\* C9: at most one poll of the job is scheduled or in flight, it is a poll
\* of the current job, and a new poll is scheduled only by a step in which a
\* poll's fetch resolved, one at a time.
C9_OnePollAtATime ==
  /\ [](Pending <= 1)
  /\ [](\A k \in 1..Len(scheduled) : scheduled[k].taskId = taskId)
  /\ [](\A k \in 1..Len(inflight) : inflight[k].taskId = taskId)
  /\ [][Len(scheduled') > Len(scheduled)
        => (PollStep /\ Len(scheduled') = Len(scheduled) + 1)]_vars

C9_Witness ==
  /\ lastStep = "switch-post" /\ lastResp.code = 405
  /\ Len(scheduled) = 1 /\ Len(inflight) = 0

\* C10: every poll step ends with the status unchanged and exactly one more
\* poll scheduled, or with status 'completed', or with status 'error' (and
\* then nothing scheduled); so while the status is 'generating' after the
\* job id arrived, exactly one poll is scheduled or in flight.
C10_ThreeOutcomes ==
  /\ [][PollStep =>
          \/ status' = status /\ status' \notin {"completed", "error"}
               /\ Len(scheduled') = Len(scheduled) + 1
          \/ status' = "completed" /\ scheduled' = scheduled
          \/ status' = "error" /\ scheduled' = scheduled]_vars
  /\ []((status = "generating" /\ phase = "idle") => Pending = 1)

C10_Witness ==
  /\ lastStep = "simulated" /\ status = "generating"
  /\ Len(scheduled) = 1 /\ scheduled[1].retryCount = 0

\* A 2xx body whose status is success
SuccessResp(r) == r.kind = "json" /\ IsOk(r) /\ r.status = "success"

\* A 2xx body with an error or message field, status running and a numeric
\* progress
SoftError(r) ==
  r.kind = "json" /\ IsOk(r) /\ r.err /\ r.status = "running" /\ IsNumber(r.progress)

\* A poll outcome that throws before any data is used: network failure,
\* non-2xx response, unparsable JSON
Transient(r) == r.kind = "network" \/ r.kind = "badjson" \/ ~IsOk(r)

\* C11: at most one generation request is sent per submission, and when it
\* fails the handler sets status 'error', clears isGenerating, starts no
\* poll and ends without another request.
C11_FailedStartIsFinal ==
  /\ [](genCalls <= 1)
  /\ [][(phase = "starting" /\ lastStep' = "start-failed")
        => (/\ status' = "error" /\ ~isGenerating'
            /\ Len(scheduled') + Len(inflight') = 0
            /\ phase' = "idle" /\ genCalls' = 1)]_vars

C11_Witness ==
  /\ lastStep = "start-failed" /\ inputType = "image-text"
  /\ status = "error" /\ ~isGenerating /\ genCalls = 1 /\ Pending = 0

\* C12: whenever a submit handler starts a poll chain, the generation
\* service has returned a job id, the status is 'generating', progress is 0
\* and the poll's retryCount is 0, for every handler.
C12_ChainStartsWithJobId ==
  [][(phase = "starting" /\ Len(inflight') > Len(inflight))
     => (/\ lastStep' = "started" /\ taskId' # NoTask
         /\ status' = "generating" /\ progress' = 0
         /\ \A k \in 1..Len(inflight') :
              inflight'[k].taskId # NoTask /\ inflight'[k].retryCount = 0)]_vars

\* C13: on a success answer without primary URL and with base URL X, the
\* route's normalized modelUrl is X and the client's modelUrl becomes X.
C13_BaseUrlPromoted ==
  /\ [][(PollStep /\ lastUp'.kind = "data" /\ lastUp'.status = "success"
           /\ lastUp'.hasOutput /\ lastUp'.model = "null"
           /\ lastUp'.base_model # "null")
        => (lastResp'.modelUrl = lastUp'.base_model
              /\ modelUrl' = lastUp'.base_model)]_vars
  /\ [][(PollStep /\ SuccessResp(lastResp') /\ lastResp'.modelUrl = "null"
           /\ lastResp'.baseModelUrl # "null")
        => modelUrl' = lastResp'.baseModelUrl]_vars

C13_Witness ==
  /\ lastUp.kind = "data" /\ lastUp.model = "null" /\ lastUp.base_model = "base"
  /\ status = "completed" /\ modelUrl = "base"

\* C14: a success answer with neither URL completes the job with progress
\* 100 and modelUrl null, starts no STL conversion and schedules no poll.
C14_SuccessWithoutUrl ==
  [][(PollStep /\ SuccessResp(lastResp') /\ lastResp'.modelUrl = "null"
        /\ lastResp'.baseModelUrl = "null")
     => (/\ status' = "completed" /\ progress' = DoneProgress
         /\ modelUrl' = "null" /\ converting' = converting
         /\ Len(scheduled') + Len(inflight') = 0)]_vars

C14_Witness ==
  /\ SuccessResp(lastResp) /\ lastStep = "success"
  /\ status = "completed" /\ modelUrl = "null" /\ converting = 0

\* C15: a simulated-progress step sets progress to min(98, p + 3 + j) with
\* p the progress of the response and j in 0..4, which is at most 98.
C15_SimulatedFormula ==
  [][(PollStep /\ lastStep' = "simulated")
     => (/\ \E j \in 0..(JitterRange - 1) :
              progress' = Min(SimulatedCeiling,
                              lastResp'.progress + SimulatedStep + j)
         /\ progress' <= SimulatedCeiling)]_vars

C15_Witness ==
  /\ lastStep = "simulated" /\ lastResp.progress = 100
  /\ progress = SimulatedCeiling

\* C16 (as stated): after a poll step that substitutes simulated progress,
\* through an in-progress answer or through a thrown error, the one poll
\* scheduled has retryCount 0.
C16_SimulatedResetsAttempt ==
  [][(PollStep /\ lastStep' \in {"simulated", "catch-fake"})
     => (Len(scheduled') = 1 /\ scheduled'[1].retryCount = 0)]_vars

\* C16 (amended): after simulated progress through an in-progress answer the
\* next poll has retryCount 0 and the same maxRetries; after placeholder
\* progress through a thrown error it has retryCount + 1 and maxRetries + 5.
C16_SimulatedNextPoll ==
  [][(PollStep /\ Len(inflight) = 1)
     => LET p == inflight[1]
        IN /\ lastStep' = "simulated"
                => scheduled' = <<Poll(p.taskId, 0, p.maxRetries)>>
           /\ lastStep' = "catch-fake"
                => scheduled' = <<Poll(p.taskId, p.retryCount + 2,
                                       p.maxRetries + MaxRetriesBump)>>]_vars

C16_Witness ==
  /\ lastStep = "catch-fake" /\ Len(scheduled) = 1
  /\ scheduled[1].maxRetries = DefaultMaxRetries + MaxRetriesBump
  /\ scheduled[1].retryCount = 2 * (DefaultMaxRetries + 1)

\* C17: a poll that runs with retryCount above maxRetries and gets no
\* terminal signal is a simulated-progress step and, below the ceiling,
\* raises the progress.
C17_PastThresholdSimulates ==
  [][(PollStep /\ Len(inflight) = 1
        /\ inflight[1].retryCount > 2 * inflight[1].maxRetries
        /\ status' = "generating")
     => (/\ lastStep' \in {"simulated", "catch-fake"}
         /\ progress < SimulatedCeiling => progress' > progress)]_vars

\* C18: a soft poll error keeps the status, sets progress to the value in
\* the body and schedules exactly one poll with retryCount + 1.
C18_SoftErrorContinues ==
  [][(PollStep /\ Len(inflight) = 1 /\ SoftError(lastResp'))
     => (/\ status' = status /\ status' = "generating"
         /\ progress' = lastResp'.progress
         /\ modelUrl' = modelUrl
         /\ scheduled' = <<Next1(inflight[1])>>)]_vars

C18_Witness ==
  /\ SoftError(lastResp) /\ lastResp.progress = NoKeyProgress
  /\ progress = NoKeyProgress /\ status = "generating"
  /\ Len(scheduled) = 1 /\ scheduled[1].retryCount = 2 * (DefaultMaxRetries + 1)

\* C19 (as stated): a poll that ends in a transient error with retryCount
\* below maxRetries changes nothing and schedules one poll with retryCount + 1.
C19_TransientRetry ==
  [][(PollStep /\ Len(inflight) = 1 /\ Transient(lastResp')
        /\ BelowMax(inflight[1]))
     => (/\ status' = status /\ progress' = progress /\ modelUrl' = modelUrl
         /\ scheduled' = <<Next1(inflight[1])>>)]_vars

\* C19 (amended): the same, except that a 405 answer to a GET (retryCount 0)
\* schedules the next poll with retryCount + 0.5.
C19_TransientRetryOrSwitch ==
  [][(PollStep /\ Len(inflight) = 1 /\ Transient(lastResp')
        /\ BelowMax(inflight[1]))
     => LET p == inflight[1]
        IN /\ status' = status /\ progress' = progress /\ modelUrl' = modelUrl
           /\ scheduled' =
                IF lastResp'.code = 405 /\ Method(p) = "GET"
                  THEN <<Poll(p.taskId, p.retryCount + 1, p.maxRetries)>>
                  ELSE <<Next1(p)>>]_vars

C19_Witness ==
  /\ lastResp.kind = "badjson" /\ lastStep = "catch-retry"
  /\ Len(scheduled) = 1 /\ scheduled[1].retryCount = 2
  /\ status = "generating"
\* C21: progress is always an integer in 0..100, and below 100 while the
\* status is not 'completed'.
C21_ProgressInRange ==
  /\ progress \in 0..DoneProgress
  /\ status # "completed" => progress < DoneProgress

\* The outcomes of the upstream call the route has a fallback for: missing
\* API key, network error, non-2xx, unparsable body, body without data
\* field, success payload without output or without URLs
ListedOutcome(u) ==
  \/ u.kind \in {"nokey", "network", "http", "badjson", "nodata"}
  \/ /\ u.kind = "data" /\ u.status = "success"
     /\ ~u.hasOutput \/ (u.model = "null" /\ u.base_model = "null")

\* C22: for each of these outcomes the route answers HTTP 200 with a JSON
\* body that has a status field, and the poll that receives it does not
\* throw.
C22_NormalizationTotal ==
  [][(PollStep /\ ListedOutcome(lastUp'))
     => (/\ lastResp' = handleTaskStatus(lastUp')
         /\ lastResp'.kind = "json" /\ lastResp'.code = 200
         /\ lastResp'.status # "none"
         /\ lastStep' \notin {"catch-retry", "catch-fake", "catch-error"})]_vars

C22_Witness ==
  /\ lastUp.kind = "badjson" /\ lastResp.status = "running"
  /\ lastResp.progress = BadJsonProgress /\ lastStep = "in-progress"
  /\ progress = BadJsonProgress

\* C23: the normalized progress of a status payload is a number: the
\* upstream progress when that is numeric, 0 otherwise; and so is the
\* progress the client stores from it.
C23_NormalizedProgressIsNumber ==
  (lastStep = "normalized" /\ lastUp.kind = "data")
    => (/\ IsNumber(lastResp.progress)
        /\ lastResp.progress =
             (IF IsNumber(lastUp.progress) THEN lastUp.progress ELSE 0)
        /\ IsNumber(progress))

\* C24: the poll step that receives a success answer with primary URL u
\* leaves status 'completed', progress 100, modelUrl u and no poll, whatever
\* answers the job's polls got before.
C24_SuccessCompletes ==
  [][(PollStep /\ SuccessResp(lastResp') /\ lastResp'.modelUrl # "null")
     => (/\ status' = "completed" /\ progress' = DoneProgress
         /\ modelUrl' = lastResp'.modelUrl /\ ~isGenerating'
         /\ Len(scheduled') + Len(inflight') = 0)]_vars

C24_Witness ==
  /\ lastStep = "success" /\ found
  /\ lastResp.modelUrl = "glb" /\ lastResp.baseModelUrl = "base"
  /\ status = "completed" /\ progress = DoneProgress /\ modelUrl = "glb"

\* C25: a success answer completes the job with progress 100 whether or
\* not the hand-off message is posted; the end of an STL conversion, failed
\* or not, and whatever becomes of the hand-off message change none of
\* status, progress, modelUrl, isGenerating and the polls.
C25_LifecycleIndependent ==
  /\ [][(PollStep /\ SuccessResp(lastResp'))
        => (status' = "completed" /\ progress' = DoneProgress)]_vars
  /\ [][(converting' < converting
           \/ (handoff = "posted" /\ handoff' \in HandOffOutcomes))
        => (/\ status' = status /\ progress' = progress
            /\ modelUrl' = modelUrl /\ isGenerating' = isGenerating
            /\ scheduled' = scheduled /\ inflight' = inflight)]_vars
  /\ [](status = "completed" => progress = DoneProgress)

C25_Witness ==
  /\ status = "completed" /\ progress = DoneProgress /\ modelUrl = "glb"
  /\ converting = 0 /\ ~stlBlob /\ handoff = "lost"

\* C26: whatever the analysis call returns, handleImageTextSubmit goes on
\* to the upload with a non-empty description and the status unchanged, and
\* the generation request that follows carries a non-empty prompt.
C26_AnalysisNeverFails ==
  /\ [][(phase = "analyzing" /\ phase' # phase)
        => (/\ phase' = "uploading" /\ description' # ""
            /\ status' = "generating" /\ isGenerating')]_vars
  /\ []((inputType = "image-text" /\ phase \in {"uploading", "starting"})
          => description # "")

C26_Witness ==
  /\ inputType = "image-text" /\ phase = "starting" /\ genCalls = 1
  /\ description = "prompt" /\ status = "generating"

\* A poll outcome that throws: a transient error, or an error body without
\* status
Thrown(r) ==
  Transient(r) \/ (r.kind = "json" /\ IsOk(r) /\ r.err /\ r.status = "none")

\* C27: a poll that throws with retryCount >= maxRetries leaves status
\* 'generating' and progress min(98, 25 + 10 * retryCount) and schedules one
\* poll with retryCount + 1 and maxRetries + 5; the final error block of
\* the catch handler is never reached.
C27_PlaceholderOnThrow ==
  /\ [][(PollStep /\ Len(inflight) = 1 /\ Thrown(lastResp')
           /\ AtLeastMax(inflight[1]))
        => LET p == inflight[1]
           IN /\ status' = "generating"
              /\ 2 * progress' =
                   Min(2 * FakeBase + FakeSlope * p.retryCount,
                       2 * SimulatedCeiling)
              /\ scheduled' = <<Poll(p.taskId, p.retryCount + 2,
                                     p.maxRetries + MaxRetriesBump)>>]_vars
  /\ [](lastStep # "catch-error")

C27_Witness ==
  /\ lastStep = "catch-fake" /\ lastResp.kind = "json" /\ lastResp.err
  /\ lastResp.status = "none" /\ status = "generating"
  /\ Len(scheduled) = 1 /\ scheduled[1].maxRetries = DefaultMaxRetries + MaxRetriesBump
\* C28: isGenerating is true exactly while a submit handler is running or
\* a poll is scheduled or in flight; a submission starts only when no poll
\* is left, so at most one poll exists at any time.
C28_SingleChain ==
  /\ isGenerating <=> (phase # "idle" \/ Pending > 0)
  /\ isGenerating => status \notin {"completed", "error"}
  /\ lastStep = "submit" => Pending = 0
  /\ Pending <= 1

C28_Witness ==
  /\ submissions = 2 /\ lastStep = "submit" /\ phase # "idle"
  /\ isGenerating /\ Pending = 0 /\ taskId = 1

\* The configuration says userTier 'free' with usageCount >= limits.free,
\* both positive
OverLimit(c) ==
  /\ c.limits /\ c.userTier = "free"
  /\ c.free > 0 /\ c.usageCount > 0 /\ c.usageCount >= c.free

\* C29: while the configuration is over the free limit no submission
\* starts, and a blocked submit attempt changes nothing and sends nothing;
\* a submit attempt is blocked only under such a configuration, and with no
\* limits configured the Generate button always starts a submission.
C29_LimitBlocksSubmit ==
  /\ [][OverLimit(userConfig) => submissions' = submissions]_vars
  /\ [][lastStep' = "limit-blocked"
        => (/\ status' = status /\ progress' = progress
            /\ isGenerating' = isGenerating /\ phase' = phase
            /\ genCalls' = genCalls /\ taskId' = taskId
            /\ scheduled' = scheduled /\ inflight' = inflight)]_vars
  /\ [][(lastStep' = "limit-blocked" /\ lastStep # "limit-blocked")
        => OverLimit(userConfig)]_vars
  /\ []((~userConfig.limits /\ CanSubmit /\ phase = "idle"
           /\ submissions < MaxJobs)
          => ENABLED (\E kind \in InputTypes : Submit(kind)))

C29_Witness ==
  /\ lastStep = "limit-blocked" /\ userConfig = FreeAtLimit
  /\ status = "idle" /\ ~isGenerating /\ phase = "idle"
  /\ submissions = 0 /\ genCalls = 0

\* A step that subscribes a socket: it is connected after the step and was
\* not before
Subscribes ==
  \E k \in 1..Len(impSockets') :
    /\ impSockets'[k] = "connected"
    /\ k \in 1..Len(impSockets) => impSockets[k] # "connected"

\* A step that starts a status request, a polling timer or a subscription
StartsImportActivity ==
  \/ impRequests' > impRequests
  \/ impTimers' > impTimers
  \/ impChecks' \notin {0, impChecks}
  \/ Subscribes

\* A status request that fails before the import is completed or failed
FailedStatusRequest ==
  /\ impStatus \notin Terminal
  /\ impRequests' < impRequests
  /\ impStep' = "http-failed"

\* C30: once updateImportUI has recorded 'completed' or 'failed' for the
\* import, no step starts a status request, a polling timer or a socket
\* subscription for it; before that, a failed status request leaves a
\* checkStatus timer of 5 s pending.
C30_NoActivityAfterTerminal ==
  /\ [][(impStatus \in Terminal /\ StartsImportActivity) => FALSE]_vars
  /\ [][FailedStatusRequest => impChecks' = RetryDelay]_vars

====
